---- MODULE Spec2Model ----
(***************************************************************************)
(* vsi2tif.py: the batch run started by the "Start Conversion" button      *)
(* (MainWindow.run_conversion), the ThreadPoolExecutor it drives and the   *)
(* per-file task convert_vsi_to_tif.                                       *)
(*                                                                         *)
(* Text (widget contents, file names) is a sequence of one-character       *)
(* strings, so that int(), str.endswith, str.split and the ordering used   *)
(* by sorted() are computed character by character.                        *)
(***************************************************************************)
EXTENDS Integers, Sequences, FiniteSets, TLC

\* Largest number of entries in the source directory.
MaxFiles == 3

\* Largest number of clicks on "Start Conversion" on one window.
MaxBatches == 2

\* Defaults of run_conversion when a text field is empty.
DefaultMemory == 28
DefaultWorkers == 2

VARIABLES
    memory_entry,     \* text of the memory QLineEdit
    process_entry,    \* text of the parallel-processes QLineEdit
    dir,              \* the source folder: [readable, names]
    pc,               \* position of run_conversion
    gigs_of_memory,   \* local of run_conversion (0: not yet assigned)
    max_workers,      \* local of run_conversion (0: not yet assigned)
    jvm_options,      \* options handed to sj.config.add_option, in order
    ij,               \* "none" | "ready": the ImageJ gateway
    listdir_calls,    \* number of os.listdir calls this run has made
    vsi_files,        \* local of run_conversion: the sorted .vsi names
    submitted,        \* number of executor.submit calls made
    task_pc,          \* position of each convert_vsi_to_tif call
    future,           \* state of each future: pending | returned | raised
    task_log,         \* what the task itself printed: none | saved | error
    work_queue,       \* the executor's FIFO work queue (task indices)
    num_threads,      \* worker threads the executor has spawned
    idle_semaphore,   \* the executor's idle-worker semaphore
    yielded,          \* futures as_completed has handed to the loop
    reports,          \* per future, what the loop printed, in order
    tif_folder,       \* names of the files written to the TIFF folder
    dialogs,          \* titles of the message boxes this run has shown
    escaped,          \* exception that left run_conversion uncaught
    task_locals,      \* per task, its local names bound to image data
    written,          \* names this run has written to the TIFF folder
    prev_run,         \* what the previous run on this window saved
    batch             \* number of clicks on "Start Conversion" so far

vars == << memory_entry, process_entry, dir, pc, gigs_of_memory, max_workers,
           jvm_options, ij, listdir_calls, vsi_files, submitted, task_pc,
           future, task_log, work_queue, num_threads, idle_semaphore, yielded,
           reports, tif_folder, dialogs, escaped, task_locals, written,
           prev_run, batch >>

(***************************************************************************)
(* Text                                                                    *)
(***************************************************************************)

\* ord() of the characters that occur in the inputs.
Ord(c) ==
    CASE c = "+" -> 43 [] c = "-" -> 45 [] c = "." -> 46
      [] c = "0" -> 48 [] c = "1" -> 49 [] c = "2" -> 50 [] c = "8" -> 56
      [] c = "A" -> 65 [] c = "b" -> 98 [] c = "c" -> 99 [] c = "f" -> 102
      [] c = "i" -> 105 [] c = "s" -> 115 [] c = "t" -> 116 [] c = "v" -> 118
      [] c = "x" -> 120

IsDigit(c) == Ord(c) >= 48 /\ Ord(c) <= 57

RECURSIVE DigitsValue(_, _)
\* Value of a non-empty run of decimal digits, acc the value read so far.
DigitsValue(s, acc) ==
    IF s = << >> THEN acc
    ELSE DigitsValue(Tail(s), acc * 10 + (Ord(Head(s)) - 48))

\* int(text): an optional sign followed by decimal digits, else ValueError.
ParseInt(s) ==
    LET signed == s # << >> /\ Head(s) \in {"+", "-"}
        body   == IF signed THEN Tail(s) ELSE s
    IN  IF body = << >> \/ \E k \in 1..Len(body) : ~IsDigit(body[k])
        THEN [ok |-> FALSE, val |-> 0]
        ELSE [ok |-> TRUE,
              val |-> IF signed /\ Head(s) = "-"
                      THEN 0 - DigitsValue(body, 0)
                      ELSE DigitsValue(body, 0)]

\* "int(text) if text else default"
ReadInt(text, default) ==
    IF text = << >> THEN [ok |-> TRUE, val |-> default] ELSE ParseInt(text)

\* The mutant of Positive: zero is let through.
PositiveOrZero(v) == v.ok /\ v.val >= 0

\* The value passes the "<= 0 -> raise ValueError" test of run_conversion.
Positive(v) == v.ok /\ ~(v.val <= 0)

\* str.endswith
EndsWith(s, suffix) ==
    /\ Len(s) >= Len(suffix)
    /\ SubSeq(s, Len(s) - Len(suffix) + 1, Len(s)) = suffix

RECURSIVE StrLess(_, _)
\* s < t for Python str: code point by code point, a proper prefix is smaller.
StrLess(s, t) ==
    IF t = << >> THEN FALSE
    ELSE IF s = << >> THEN TRUE
    ELSE IF Head(s) # Head(t) THEN Ord(Head(s)) < Ord(Head(t))
    ELSE StrLess(Tail(s), Tail(t))

VsiSuffix == << ".", "v", "s", "i" >>
TifSuffix == << ".", "t", "i", "f" >>

\* f.endswith('.vsi')
IsVsi(f) == EndsWith(f, VsiSuffix)

\* The list comprehension: the entries of the listing that pass the filter,
\* in listing order.
FilterVsi(listing) == SelectSeq(listing, IsVsi)

RECURSIVE Insert(_, _)
\* x put into the ascending sequence s, after the elements not greater.
Insert(x, s) ==
    IF s = << >> THEN << x >>
    ELSE IF StrLess(x, Head(s)) THEN << x >> \o s
    ELSE << Head(s) >> \o Insert(x, Tail(s))

RECURSIVE SortedFrom(_, _)
SortedFrom(s, acc) ==
    IF s = << >> THEN acc ELSE SortedFrom(Tail(s), Insert(Head(s), acc))

\* The mutant of Sorted: the listing order is kept.
Unsorted(s) == s

\* sorted(s): ascending by StrLess, stable.
Sorted(s) == SortedFrom(s, << >>)

\* s.split(sep)[0]: s up to the first occurrence of sep, all of s if none.
SplitFirst(s, sep) ==
    LET hits == { k \in 1..Len(s) :
                     k + Len(sep) - 1 <= Len(s)
                     /\ SubSeq(s, k, k + Len(sep) - 1) = sep }
    IN  IF hits = {} THEN s
        ELSE SubSeq(s, 1, (CHOOSE k \in hits : \A j \in hits : k <= j) - 1)

\* Base name of save_url: vsi_file.split('.vsi')[0] + '.tif'
SaveName(vsi_file) == SplitFirst(vsi_file, VsiSuffix) \o TifSuffix

(***************************************************************************)
(* Inputs                                                                  *)
(***************************************************************************)

\* Texts the user may type into the memory field.
MemoryTexts == { << >>, << "0" >>, << "x" >> }

\* Texts the user may type into the parallel-processes field.
ProcessTexts == { << >>, << "1" >>, << "0" >>, << "-", "1" >>, << "2", "x" >> }

\* Names a source directory entry may have.
Names ==
    { << "A", ".", "v", "s", "i" >>,
      << "b", ".", "v", "s", "i" >>,
      << "c", ".", "v", "s", "i" >>,
      << "b", ".", "v", "s", "i", ".", "v", "s", "i" >>,
      << "c", ".", "t", "x", "t" >> }

\* The source folders: one that cannot be listed, and every set of at most
\* MaxFiles names.
Directories ==
    { [readable |-> FALSE, names |-> {}] }
    \cup { [readable |-> TRUE, names |-> S] :
              S \in { T \in SUBSET Names : Cardinality(T) <= MaxFiles } }

\* The orders in which os.listdir may return the names of a directory.
Listings(S) ==
    { s \in [1..Cardinality(S) -> S] : \A i, j \in 1..Cardinality(S) :
                                          i # j => s[i] # s[j] }

(***************************************************************************)
(* State after MainWindow.__init__                                         *)
(***************************************************************************)

\* The source folders of the runs that start a second batch on the window.
RerunDirectories ==
    { [readable |-> FALSE, names |-> {}] }
    \cup { [readable |-> TRUE, names |-> S] :
              S \in SUBSET { << "b", ".", "v", "s", "i" >>,
                             << "b", ".", "v", "s", "i", ".", "v", "s", "i" >>,
                             << "c", ".", "t", "x", "t" >> } }

\* The window as setup_ui leaves it, with the source folder one of folders.
InitIn(folders) ==
    /\ memory_entry = << "2", "8" >>
    /\ process_entry = << "2" >>
    /\ dir \in folders
    /\ pc = "Idle"
    /\ gigs_of_memory = 0
    /\ max_workers = 0
    /\ jvm_options = << >>
    /\ ij = "none"
    /\ listdir_calls = 0
    /\ vsi_files = << >>
    /\ submitted = 0
    /\ task_pc = << >>
    /\ future = << >>
    /\ task_log = << >>
    /\ work_queue = << >>
    /\ num_threads = 0
    /\ idle_semaphore = 0
    /\ yielded = {}
    /\ reports = << >>
    /\ tif_folder = {}
    /\ dialogs = << >>
    /\ escaped = "none"
    /\ task_locals = << >>
    /\ written = {}
    /\ prev_run = [saved |-> {}, written |-> {}]
    /\ batch = 0

Init == InitIn(Directories)

RerunInit == InitIn(RerunDirectories)

(***************************************************************************)
(* The front end: the user edits the two numeric fields before starting    *)
(***************************************************************************)

EditMemory(t) ==
    /\ pc = "Idle"
    /\ memory_entry' = t
    /\ UNCHANGED << task_locals, written, prev_run, batch >>
    /\ UNCHANGED << process_entry, dir, pc, gigs_of_memory, max_workers,
                    jvm_options, ij, listdir_calls, vsi_files, submitted,
                    task_pc, future, task_log, work_queue, num_threads,
                    idle_semaphore, yielded, reports, tif_folder, dialogs,
                    escaped >>

EditProcess(t) ==
    /\ pc = "Idle"
    /\ process_entry' = t
    /\ UNCHANGED << task_locals, written, prev_run, batch >>
    /\ UNCHANGED << memory_entry, dir, pc, gigs_of_memory, max_workers,
                    jvm_options, ij, listdir_calls, vsi_files, submitted,
                    task_pc, future, task_log, work_queue, num_threads,
                    idle_semaphore, yielded, reports, tif_folder, dialogs,
                    escaped >>

(***************************************************************************)
(* MainWindow.run_conversion                                               *)
(***************************************************************************)

\* Lines 71-89: both numeric fields are read and checked; a bad one shows
\* the "Input Error" box and returns.
Validate ==
    /\ pc = "Idle"
    /\ LET m == ReadInt(memory_entry, DefaultMemory)
           p == ReadInt(process_entry, DefaultWorkers)
       IN  IF ~Positive(m)
           THEN /\ dialogs' = Append(dialogs, "Input Error")
                /\ pc' = "Failed"
                /\ UNCHANGED << gigs_of_memory, max_workers >>
           ELSE IF ~Positive(p)
           THEN /\ gigs_of_memory' = m.val
                /\ dialogs' = Append(dialogs, "Input Error")
                /\ pc' = "Failed"
                /\ UNCHANGED max_workers
           ELSE /\ gigs_of_memory' = m.val
                /\ max_workers' = p.val
                /\ pc' = "AddOption"
                /\ UNCHANGED dialogs
    /\ batch' = batch + 1
    /\ UNCHANGED << task_locals, written, prev_run >>
    /\ UNCHANGED << memory_entry, process_entry, dir, jvm_options, ij,
                    listdir_calls, vsi_files, submitted, task_pc, future,
                    task_log, work_queue, num_threads, idle_semaphore,
                    yielded, reports, tif_folder, escaped >>

\* The mutant of OptionsAfterAdd: the option is not recorded.
OptionsNotAdded(options, gigs) == options

\* sj.config.add_option appends the option to the configured ones.
OptionsAfterAdd(options, gigs) == Append(options, gigs)

\* Line 91: sj.config.add_option(f'-Xmx{gigs_of_memory}g')
AddOption ==
    /\ pc = "AddOption"
    /\ jvm_options' = OptionsAfterAdd(jvm_options, gigs_of_memory)
    /\ pc' = "InitImageJ"
    /\ UNCHANGED << task_locals, written, prev_run, batch >>
    /\ UNCHANGED << memory_entry, process_entry, dir, gigs_of_memory,
                    max_workers, ij, listdir_calls, vsi_files, submitted,
                    task_pc, future, task_log, work_queue, num_threads,
                    idle_semaphore, yielded, reports, tif_folder, dialogs,
                    escaped >>

\* Line 92: imagej.init(...) returns the gateway, or raises; nothing in
\* run_conversion catches what it raises.
InitImageJ ==
    /\ pc = "InitImageJ"
    /\ \/ /\ ij' = "ready"
          /\ pc' = "Discover"
          /\ UNCHANGED escaped
       \/ /\ escaped' = "InitError"
          /\ pc' = "Failed"
          /\ UNCHANGED ij
    /\ UNCHANGED << task_locals, written, prev_run, batch >>
    /\ UNCHANGED << memory_entry, process_entry, dir, gigs_of_memory,
                    max_workers, jvm_options, listdir_calls, vsi_files,
                    submitted, task_pc, future, task_log, work_queue,
                    num_threads, idle_semaphore, yielded, reports,
                    tif_folder, dialogs >>

\* The mutant of NoFiles: the empty check is gone.
NeverNoFiles(files) == FALSE

\* "if not vsi_files"
NoFiles(files) == files = << >>

\* Lines 95-98: os.listdir raises on a folder that cannot be listed, and
\* nothing catches it; otherwise the .vsi names are sorted, and an empty
\* result shows the "No Files" box and returns.
Discover ==
    /\ pc = "Discover"
    /\ listdir_calls' = listdir_calls + 1
    /\ IF ~dir.readable
       THEN /\ escaped' = "OSError"
            /\ pc' = "Failed"
            /\ UNCHANGED << vsi_files, task_pc, future, task_log, reports,
                            dialogs, task_locals >>
       ELSE \E listing \in Listings(dir.names) :
              LET files == Sorted(FilterVsi(listing))
              IN  /\ vsi_files' = files
                  /\ UNCHANGED escaped
                  /\ IF NoFiles(files)
                     THEN /\ dialogs' = Append(dialogs, "No Files")
                          /\ pc' = "Done"
                          /\ UNCHANGED << task_pc, future, task_log, reports,
                                          task_locals >>
                     ELSE /\ pc' = "Submit"
                          /\ task_locals' = [i \in 1..Len(files) |-> {}]
                          /\ task_pc' = [i \in 1..Len(files) |-> "unsubmitted"]
                          /\ future' = [i \in 1..Len(files) |-> "pending"]
                          /\ task_log' = [i \in 1..Len(files) |-> "none"]
                          /\ reports' = [i \in 1..Len(files) |-> << >>]
                          /\ UNCHANGED dialogs
    /\ UNCHANGED << written, prev_run, batch >>
    /\ UNCHANGED << memory_entry, process_entry, dir, gigs_of_memory,
                    max_workers, jvm_options, ij, submitted, work_queue,
                    num_threads, idle_semaphore, yielded, tif_folder >>

(***************************************************************************)
(* ThreadPoolExecutor(max_workers) as run_conversion uses it               *)
(***************************************************************************)

\* Positions of convert_vsi_to_tif at which a worker thread is inside it.
RunningPcs == { "setup", "open", "decode", "write", "finally" }

\* The tasks in flight: started and not yet finished.
InFlight == { i \in DOMAIN task_pc : task_pc[i] \in RunningPcs }

\* The mutant of AdjustThreadCount: the max_workers test is gone.
SpawnUnbounded(n, idle, maxw) == IF idle > 0 THEN n ELSE n + 1

\* The mutant of AdjustThreadCount: no thread is ever spawned.
SpawnNever(n, idle, maxw) == n

\* executor.submit -> _adjust_thread_count: an idle worker takes the item,
\* else a thread is spawned while fewer than max_workers exist.
AdjustThreadCount(n, idle, maxw) ==
    IF idle > 0 THEN n ELSE IF n < maxw THEN n + 1 ELSE n

\* The mutant of SubmitCount: the last file is left out.
SubmitAllButLast(files) == Len(files) - 1

\* Number of submit calls the dict comprehension of line 101 makes.
SubmitCount(files) == Len(files)

\* The mutant of SubmitReady: submit waits until a worker slot is free.
SubmitWaitsForSlot(inflight, maxw) == inflight < maxw

\* executor.submit puts the work item on an unbounded queue: it can always
\* proceed, however many of the maxw workers are busy.
SubmitReady(inflight, maxw) == TRUE

\* Line 101: one submit per file, in the order of vsi_files. submit only
\* queues the work item; it never waits for a worker.
Submit ==
    /\ pc = "Submit"
    /\ IF submitted < SubmitCount(vsi_files)
       THEN LET i == submitted + 1
            IN  /\ SubmitReady(Cardinality(InFlight), max_workers)
                /\ submitted' = i
                /\ task_pc' = [task_pc EXCEPT ![i] = "queued"]
                /\ work_queue' = Append(work_queue, i)
                /\ num_threads' =
                       AdjustThreadCount(num_threads, idle_semaphore, max_workers)
                /\ idle_semaphore' =
                       IF idle_semaphore > 0 THEN idle_semaphore - 1
                       ELSE idle_semaphore
                /\ UNCHANGED pc
       ELSE /\ pc' = "Consume"
            /\ UNCHANGED << submitted, task_pc, work_queue, num_threads,
                            idle_semaphore >>
    /\ UNCHANGED << task_locals, written, prev_run, batch >>
    /\ UNCHANGED << memory_entry, process_entry, dir, gigs_of_memory,
                    max_workers, jvm_options, ij, listdir_calls, vsi_files,
                    future, task_log, yielded, reports, tif_folder, dialogs,
                    escaped >>

\* A worker thread that is not inside a task takes the head of the queue.
WorkerStart(i) ==
    /\ work_queue # << >>
    /\ Head(work_queue) = i
    /\ num_threads > Cardinality(InFlight)
    /\ work_queue' = Tail(work_queue)
    /\ task_pc' = [task_pc EXCEPT ![i] = "setup"]
    /\ UNCHANGED << task_locals, written, prev_run, batch >>
    /\ UNCHANGED << memory_entry, process_entry, dir, pc, gigs_of_memory,
                    max_workers, jvm_options, ij, listdir_calls, vsi_files,
                    submitted, future, task_log, num_threads, idle_semaphore,
                    yielded, reports, tif_folder, dialogs, escaped >>

\* The worker is done with task i: the future gets its outcome, and the
\* worker announces itself idle when it finds the queue empty.
Finish(i, outcome) ==
    /\ task_pc' = [task_pc EXCEPT ![i] = "finished"]
    /\ future' = [future EXCEPT ![i] = outcome]
    /\ idle_semaphore' =
           IF work_queue = << >> THEN idle_semaphore + 1 ELSE idle_semaphore

(***************************************************************************)
(* convert_vsi_to_tif                                                      *)
(***************************************************************************)

\* Lines 114-120, before the try: the paths and the importer options. What
\* is raised here leaves the function and is stored in the future; no image
\* data is bound yet.
Setup(i) ==
    /\ i \in DOMAIN task_pc
    /\ task_pc[i] = "setup"
    /\ \/ /\ task_pc' = [task_pc EXCEPT ![i] = "open"]
          /\ UNCHANGED << future, idle_semaphore >>
       \/ Finish(i, "raised")
    /\ UNCHANGED << task_locals, written, prev_run, batch >>
    /\ UNCHANGED << memory_entry, process_entry, dir, pc, gigs_of_memory,
                    max_workers, jvm_options, ij, listdir_calls, vsi_files,
                    submitted, task_log, work_queue, num_threads, yielded,
                    reports, tif_folder, dialogs, escaped >>

\* Lines 129-130: the handler of the try prints the error and falls through
\* to the finally clause; bound are the names assigned before the raise.
Except(i, bound) ==
    /\ task_log' = [task_log EXCEPT ![i] = "error"]
    /\ task_pc' = [task_pc EXCEPT ![i] = "finally"]
    /\ task_locals' = [task_locals EXCEPT ![i] = @ \cup bound]
    /\ UNCHANGED << tif_folder, written >>

\* Line 123: jimage = ij.io().open(...)
Open(i) ==
    /\ i \in DOMAIN task_pc
    /\ task_pc[i] = "open"
    /\ \/ /\ task_pc' = [task_pc EXCEPT ![i] = "decode"]
          /\ task_locals' = [task_locals EXCEPT ![i] = @ \cup { "jimage" }]
          /\ UNCHANGED << task_log, tif_folder, written >>
       \/ Except(i, {})
    /\ UNCHANGED << prev_run, batch >>
    /\ UNCHANGED << memory_entry, process_entry, dir, pc, gigs_of_memory,
                    max_workers, jvm_options, ij, listdir_calls, vsi_files,
                    submitted, future, work_queue, num_threads,
                    idle_semaphore, yielded, reports, dialogs, escaped >>

\* Lines 124-125: image_array = ij.py.from_java(jimage) and
\* image_array_np = image_array.values; either statement may raise.
Decode(i) ==
    /\ i \in DOMAIN task_pc
    /\ task_pc[i] = "decode"
    /\ \/ /\ task_pc' = [task_pc EXCEPT ![i] = "write"]
          /\ task_locals' = [task_locals EXCEPT
                               ![i] = @ \cup { "image_array", "image_array_np" }]
          /\ UNCHANGED << task_log, tif_folder, written >>
       \/ Except(i, {})
       \/ Except(i, { "image_array" })
    /\ UNCHANGED << prev_run, batch >>
    /\ UNCHANGED << memory_entry, process_entry, dir, pc, gigs_of_memory,
                    max_workers, jvm_options, ij, listdir_calls, vsi_files,
                    submitted, future, work_queue, num_threads,
                    idle_semaphore, yielded, reports, dialogs, escaped >>

\* The mutant of WriteTarget: a name already present is not overwritten,
\* the file is written under another name.
WriteTargetRenamed(name, folder) ==
    IF name \in folder THEN << "1" >> \o name ELSE name

\* The file tiff.imwrite(save_url, ...) writes: save_url itself, whether or
\* not a file of that name is already in the folder.
WriteTarget(name, folder) == name

\* Lines 127-128: tiff.imwrite(save_url, ...) and the success print
Write(i) ==
    /\ i \in DOMAIN task_pc
    /\ task_pc[i] = "write"
    /\ \/ LET target == WriteTarget(SaveName(vsi_files[i]), tif_folder)
          IN  /\ tif_folder' = tif_folder \cup { target }
              /\ written' = written \cup { target }
              /\ task_log' = [task_log EXCEPT ![i] = "saved"]
              /\ task_pc' = [task_pc EXCEPT ![i] = "finally"]
              /\ UNCHANGED task_locals
       \/ Except(i, {})
    /\ UNCHANGED << prev_run, batch >>
    /\ UNCHANGED << memory_entry, process_entry, dir, pc, gigs_of_memory,
                    max_workers, jvm_options, ij, listdir_calls, vsi_files,
                    submitted, future, work_queue, num_threads,
                    idle_semaphore, yielded, reports, dialogs, escaped >>

\* Lines 132-136: image_array and jimage are deleted when bound;
\* image_array_np is not.
LocalsAfterFinally(bound) == bound \ { "image_array", "jimage" }

\* The mutant of LocalsAfterReturn: the data outlives the call.
LocalsKeptAfterReturn(bound) == bound

\* The function returns: its frame, and with it every local, is gone.
LocalsAfterReturn(bound) == {}

\* Lines 131-136: the finally clause, after which the function returns None
\* whether or not the try raised.
Finally(i) ==
    /\ i \in DOMAIN task_pc
    /\ task_pc[i] = "finally"
    /\ Finish(i, "returned")
    /\ task_locals' =
           [task_locals EXCEPT
              ![i] = LocalsAfterReturn(LocalsAfterFinally(@))]
    /\ UNCHANGED << written, prev_run, batch >>
    /\ UNCHANGED << memory_entry, process_entry, dir, pc, gigs_of_memory,
                    max_workers, jvm_options, ij, listdir_calls, vsi_files,
                    submitted, task_log, work_queue, num_threads, yielded,
                    reports, tif_folder, dialogs, escaped >>

(***************************************************************************)
(* The result loop of run_conversion                                       *)
(***************************************************************************)

\* as_completed(futures): the finished futures not yet handed out.
AsCompleted(fut, seen) == { i \in DOMAIN fut : fut[i] # "pending" } \ seen

\* The mutant of LoopCatches: the except clause is gone.
LoopCatchesNothing(outcome) == FALSE

\* "except Exception as e" of line 107 around future.result()
LoopCatches(outcome) == outcome = "raised"

\* Lines 102-108: one iteration of the loop over as_completed.
Consume(i) ==
    /\ pc = "Consume"
    /\ i \in AsCompleted(future, yielded)
    /\ yielded' = yielded \cup {i}
    /\ IF future[i] = "returned"
       THEN /\ reports' = [reports EXCEPT ![i] = Append(@, "success")]
            /\ UNCHANGED << pc, escaped >>
       ELSE IF LoopCatches(future[i])
       THEN /\ reports' = [reports EXCEPT ![i] = Append(@, "error")]
            /\ UNCHANGED << pc, escaped >>
       ELSE /\ escaped' = "TaskError"
            /\ pc' = "Failed"
            /\ UNCHANGED reports
    /\ UNCHANGED << task_locals, written, prev_run, batch >>
    /\ UNCHANGED << memory_entry, process_entry, dir, gigs_of_memory,
                    max_workers, jvm_options, ij, listdir_calls, vsi_files,
                    submitted, task_pc, future, task_log, work_queue,
                    num_threads, idle_semaphore, tif_folder, dialogs >>

\* The mutant of LoopDone: the loop is left after the first result.
LoopDoneEarly(seen, n) == seen # {}

\* as_completed is exhausted: every future has been handed out.
LoopDone(seen, n) == seen = 1..n

\* Line 110: the words of the text of the "Completion" box.
CompletionText == << "All", "conversions", "completed." >>

\* Lines 108-110: the loop ends, the with block shuts the executor down and
\* the "Completion" box is shown.
Complete ==
    /\ pc = "Consume"
    /\ LoopDone(yielded, Len(vsi_files))
    /\ dialogs' = Append(dialogs, "Completion")
    /\ pc' = "Done"
    /\ UNCHANGED << task_locals, written, prev_run, batch >>
    /\ UNCHANGED << memory_entry, process_entry, dir, gigs_of_memory,
                    max_workers, jvm_options, ij, listdir_calls, vsi_files,
                    submitted, task_pc, future, task_log, work_queue,
                    num_threads, idle_semaphore, yielded, reports, tif_folder,
                    escaped >>

\* The input names whose file this run has saved.
SavedInputs == { vsi_files[i] : i \in { k \in DOMAIN task_log :
                                           task_log[k] = "saved" } }

\* Lines 52-55, 67: run_conversion has returned and its locals are gone;
\* the button is still connected, so the window waits for the next click.
\* What the run configured and wrote stays. (A run left by an exception is
\* not continued: PyQt ends the application on an exception in a slot.)
Return ==
    /\ pc \in { "Done", "Failed" }
    /\ escaped = "none"
    /\ batch < MaxBatches
    /\ pc' = "Idle"
    /\ prev_run' = [saved |-> SavedInputs, written |-> written]
    /\ gigs_of_memory' = 0
    /\ max_workers' = 0
    /\ listdir_calls' = 0
    /\ vsi_files' = << >>
    /\ submitted' = 0
    /\ task_pc' = << >>
    /\ future' = << >>
    /\ task_log' = << >>
    /\ work_queue' = << >>
    /\ num_threads' = 0
    /\ idle_semaphore' = 0
    /\ yielded' = {}
    /\ reports' = << >>
    /\ dialogs' = << >>
    /\ task_locals' = << >>
    /\ written' = {}
    /\ UNCHANGED << memory_entry, process_entry, dir, jvm_options, ij,
                    tif_folder, escaped, batch >>

(***************************************************************************)
(* Specifications                                                          *)
(***************************************************************************)

\* A step of run_conversion after the click was accepted.
CoordinatorStep ==
    AddOption \/ InitImageJ \/ Discover \/ Submit \/ Complete
    \/ \E i \in DOMAIN future : Consume(i)

\* A step of a worker thread.
WorkerStep ==
    \E i \in DOMAIN task_pc :
        WorkerStart(i) \/ Setup(i) \/ Open(i) \/ Decode(i) \/ Write(i)
        \/ Finally(i)

Next ==
    \/ \E t \in MemoryTexts : EditMemory(t)
    \/ \E t \in ProcessTexts : EditProcess(t)
    \/ Validate
    \/ AddOption
    \/ InitImageJ
    \/ Discover
    \/ Submit
    \/ \E i \in DOMAIN task_pc : WorkerStart(i)
    \/ \E i \in DOMAIN task_pc : Setup(i)
    \/ \E i \in DOMAIN task_pc : Open(i)
    \/ \E i \in DOMAIN task_pc : Decode(i)
    \/ \E i \in DOMAIN task_pc : Write(i)
    \/ \E i \in DOMAIN task_pc : Finally(i)
    \/ \E i \in DOMAIN future : Consume(i)
    \/ Complete

Spec == Init /\ [][Next]_vars

\* The window used for more than one batch.
RerunNext == Next \/ Return

RerunSpec == RerunInit /\ [][RerunNext]_vars

\* The calls into the codec return or raise, the worker threads and the
\* thread running run_conversion are scheduled; the user need not click.
FairSpec == Spec /\ WF_vars(CoordinatorStep) /\ WF_vars(WorkerStep)

(***************************************************************************)
(* Vocabulary of the properties                                            *)
(***************************************************************************)

\* Number of times x occurs in the sequence s.
Count(s, x) == Cardinality({ k \in DOMAIN s : s[k] = x })

\* The field's text, after the empty-text default, is not a positive integer.
NotPositiveInteger(text, default) ==
    LET v == ReadInt(text, default) IN ~v.ok \/ v.val <= 0

\* The configuration the click read is invalid.
InvalidConfig ==
    \/ NotPositiveInteger(memory_entry, DefaultMemory)
    \/ NotPositiveInteger(process_entry, DefaultWorkers)

\* The names of the source directory that end in ".vsi".
Discoverable == { f \in dir.names : EndsWith(f, VsiSuffix) }

\* run_conversion has listed a readable source directory.
Discovered == listdir_calls > 0 /\ dir.readable

\* Task i ran into an error: before the try, or inside it.
TaskFailed(i) == future[i] = "raised" \/ task_log[i] = "error"

\* run_conversion is over.
Ended == pc \in { "Done", "Failed" }

(***************************************************************************)
(* C1..C10                                                                 *)
(***************************************************************************)

\* C1: an error raised by a conversion never leaves the result loop of
\* run_conversion, and it takes no sibling with it: a run that submitted
\* tasks ends only in Done, with every task finished and its result
\* consumed, whichever of them raised; a submitted task that has not
\* started is still in the work queue.
C1_FailureIsolation ==
    /\ escaped # "TaskError"
    /\ \A i \in DOMAIN task_pc :
          (i <= submitted /\ task_pc[i] \notin RunningPcs
             /\ task_pc[i] # "finished")
          => \E k \in DOMAIN work_queue : work_queue[k] = i
    /\ (Ended /\ submitted > 0)
       => /\ pc = "Done"
          /\ \A i \in DOMAIN task_pc :
                task_pc[i] = "finished" /\ future[i] # "pending"
                /\ i \in yielded

\* C1 witness: a finished batch in which a task raised before a later
\* task, run by the only worker, went on to save its file.
C1_Witness ==
    /\ pc = "Done"
    /\ max_workers = 1
    /\ \E i, j \in DOMAIN future :
          i < j /\ future[i] = "raised" /\ task_log[j] = "saved"
    /\ \E i \in DOMAIN task_log : task_log[i] = "error"

\* C2: a task whose open / decode / write raised is reported to the loop of
\* run_conversion as a failure, never as processed successfully.
C2_CodecErrorReportedAsFailure ==
    \A i \in yielded :
        task_log[i] = "error" => reports[i] = << "error" >>

\* C3: the results the loop receives are as many as the discovered files:
\* one task per file, each queued once, run once and reported once.
C3_OneResultPerFile ==
    /\ pc \in { "Consume", "Done" } /\ Discovered
       => submitted = Len(vsi_files)
    /\ Discovered /\ pc # "Discover"
       => Len(vsi_files) = Cardinality(Discoverable)
    /\ \A i \in DOMAIN task_pc :
          /\ Count(work_queue, i) = (IF task_pc[i] = "queued" THEN 1 ELSE 0)
          /\ Len(reports[i]) = (IF i \in yielded THEN 1 ELSE 0)
          /\ (i \in yielded => task_pc[i] = "finished")
    /\ pc = "Done"
       => /\ Cardinality(yielded) = Cardinality(Discoverable)
          /\ \A i \in DOMAIN reports : Len(reports[i]) = 1

\* C3 witness: a finished batch of three files, three results.
C3_Witness ==
    /\ pc = "Done"
    /\ Cardinality(Discoverable) = 3
    /\ Cardinality(yielded) = 3
    /\ \E i \in yielded : TaskFailed(i)

\* C4: never more than max_workers tasks are in flight; with one worker no
\* two executions overlap.
C4_BoundedInFlight ==
    /\ Cardinality(InFlight) <= max_workers
    /\ num_threads <= max_workers
    /\ max_workers = 1
       => \A i, j \in InFlight : i = j

\* C4 witness: all workers busy while a submitted task waits.
C4_Witness ==
    /\ max_workers >= 1
    /\ Cardinality(InFlight) = max_workers
    /\ work_queue # << >>
    /\ submitted > max_workers

\* C5: with the codec calls returning or raising and the threads scheduled,
\* a batch that has files to submit or results to wait for reaches the
\* completed state, in which no task is left queued or running: every
\* submitted task has its result and the loop has consumed it.
C5_Liveness ==
    (pc \in { "Submit", "Consume" })
    ~> /\ pc = "Done"
       /\ Count(dialogs, "Completion") = 1
       /\ submitted = Len(vsi_files)
       /\ \A i \in DOMAIN future :
             /\ task_pc[i] = "finished"
             /\ future[i] # "pending"
             /\ Len(reports[i]) = 1

\* C5 witness: a completed batch on one worker in which a task had to wait.
C5_Witness ==
    /\ pc = "Done"
    /\ max_workers = 1
    /\ Len(vsi_files) >= 2
    /\ \A i \in DOMAIN reports : Len(reports[i]) = 1

\* C6: a memory or process value that is not a positive integer is rejected
\* with the input error before any work: no listing, no memory option, no
\* runtime, no task, no completion box.
C6_InvalidConfigRejected ==
    (pc # "Idle" /\ InvalidConfig)
    => /\ pc = "Failed"
       /\ dialogs = << "Input Error" >>
       /\ listdir_calls = 0
       /\ jvm_options = << >>
       /\ ij = "none"
       /\ submitted = 0
       /\ task_pc = << >>
       /\ escaped = "none"

\* C6 witness: the click was rejected for a process count of -1 with a
\* valid memory value.
C6_Witness ==
    /\ pc = "Failed"
    /\ process_entry = << "-", "1" >>
    /\ ~NotPositiveInteger(memory_entry, DefaultMemory)
    /\ dialogs = << "Input Error" >>

\* C7: a readable source directory without any ".vsi" name ends the batch
\* in Done with the "No Files" information, no success, no failure and no
\* task submitted.
C7_EmptyDirectoryIsDone ==
    (Discovered /\ Discoverable = {})
    => /\ pc = "Done"
       /\ dialogs = << "No Files" >>
       /\ vsi_files = << >>
       /\ submitted = 0
       /\ yielded = {}
       /\ reports = << >>
       /\ escaped = "none"

\* C7 witness: the directory holds a file, but none ending in ".vsi".
C7_Witness ==
    /\ Discovered
    /\ dir.names = { << "c", ".", "t", "x", "t" >> }
    /\ pc = "Done"

\* Every index below the length of vsi_files holds a smaller name than the
\* next one.
Ascending(files) ==
    \A i \in 1..(Len(files) - 1) : StrLess(files[i], files[i + 1])

\* C8: discovery yields exactly the names ending in ".vsi", in ascending
\* code order whatever order the listing had, and the tasks are submitted
\* in that order.
C8_SortedDiscovery ==
    /\ (Discovered /\ pc # "Discover")
       => /\ { vsi_files[k] : k \in DOMAIN vsi_files } = Discoverable
          /\ Len(vsi_files) = Cardinality(Discoverable)
          /\ Ascending(vsi_files)
          /\ dir.names = { << "b", ".", "v", "s", "i" >>,
                           << "A", ".", "v", "s", "i" >>,
                           << "c", ".", "v", "s", "i" >> }
             => vsi_files = << << "A", ".", "v", "s", "i" >>,
                               << "b", ".", "v", "s", "i" >>,
                               << "c", ".", "v", "s", "i" >> >>
    /\ \A i \in DOMAIN task_pc : task_pc[i] # "unsubmitted" <=> i <= submitted
    /\ \A k \in 1..(Len(work_queue) - 1) : work_queue[k] < work_queue[k + 1]

\* C8 witness: b.vsi, A.vsi, c.vsi discovered and all three submitted.
C8_Witness ==
    /\ dir.names = { << "b", ".", "v", "s", "i" >>,
                     << "A", ".", "v", "s", "i" >>,
                     << "c", ".", "v", "s", "i" >> }
    /\ vsi_files = << << "A", ".", "v", "s", "i" >>,
                      << "b", ".", "v", "s", "i" >>,
                      << "c", ".", "v", "s", "i" >> >>
    /\ submitted = 3

\* C9 as stated: a batch is aborted only by an invalid configuration or by
\* a source directory that cannot be listed.
C9_OnlyTwoAbortCauses ==
    pc = "Failed" => (InvalidConfig \/ escaped = "OSError")

\* C9 as amended: a directory that cannot be listed aborts the batch with
\* no task submitted and no completion box; a batch is aborted only by an
\* invalid configuration, by imagej.init raising or by the unlistable
\* directory, always before any task is submitted.
C9_AbortCauses ==
    /\ (listdir_calls > 0 /\ ~dir.readable)
       => /\ pc = "Failed"
          /\ escaped = "OSError"
          /\ submitted = 0
          /\ Count(dialogs, "Completion") = 0
    /\ pc = "Failed"
       => /\ \/ InvalidConfig /\ dialogs = << "Input Error" >>
             \/ escaped = "InitError"
             \/ escaped = "OSError" /\ ~dir.readable
          /\ submitted = 0
          /\ Count(dialogs, "Completion") = 0
    /\ escaped = "InitError" => ij = "none" /\ listdir_calls = 0

\* C9 witness: the listing of the source directory failed.
C9_Witness ==
    /\ pc = "Failed"
    /\ escaped = "OSError"
    /\ listdir_calls = 1
    /\ ij = "ready"

\* C10 as stated: every batch that ends in Done has shown the completion
\* box exactly once.
C10_CompletionOncePerBatch ==
    pc = "Done" => Count(dialogs, "Completion") = 1

\* C10 as amended: the completion box is shown at most once, only after
\* every discovered file was processed and its result consumed, and exactly
\* once in every batch that discovered a file, whatever the outcomes; a
\* batch that discovered no file shows "No Files" and no completion box.
C10_CompletionOnce ==
    /\ Count(dialogs, "Completion") <= 1
    /\ Count(dialogs, "Completion") = 1
       => /\ pc = "Done"
          /\ vsi_files # << >>
          /\ yielded = DOMAIN future
          /\ \A i \in DOMAIN future :
                task_pc[i] = "finished" /\ Len(reports[i]) = 1
    /\ (Ended /\ vsi_files # << >>) => Count(dialogs, "Completion") = 1
    /\ (pc = "Done" /\ vsi_files = << >>) => dialogs = << "No Files" >>

\* C10 witness: the completion box after a batch in which every file
\* failed.
C10_Witness ==
    /\ Count(dialogs, "Completion") = 1
    /\ Len(vsi_files) >= 2
    /\ \A i \in DOMAIN future : TaskFailed(i)

(***************************************************************************)
(* C11..C19                                                                *)
(***************************************************************************)

\* C11: each completed task gets exactly one notification from the result
\* loop, as soon as the loop may take the finished future and whatever the
\* other tasks are doing, and what is printed about one file is never both
\* an error description and a success.
C11_OneNotificationPerFile ==
    \A i \in DOMAIN reports :
        /\ Len(reports[i]) = (IF i \in yielded THEN 1 ELSE 0)
        /\ (pc = "Consume" /\ future[i] # "pending" /\ i \notin yielded)
           => ENABLED Consume(i)
        /\ ~(task_log[i] = "error" /\ Count(reports[i], "success") > 0)

\* The decimal numeral of a small count.
Numeral(n) ==
    CASE n = 0 -> "0" [] n = 1 -> "1" [] n = 2 -> "2" [] n = 3 -> "3"
      [] n = 4 -> "4" [] n = 5 -> "5" [] OTHER -> "many"

\* The results the loop has reported as successes, and as failures.
Successes == { i \in yielded : Count(reports[i], "success") > 0 }
Failures == { i \in yielded : Count(reports[i], "error") > 0 }

\* C12: the summary delivered at the end of a batch tells the number of
\* successes and the number of failures, which add up to the number of
\* discovered files.
C12_SummaryCounts ==
    Count(dialogs, "Completion") = 1
    => /\ Cardinality(Successes) + Cardinality(Failures) = Len(vsi_files)
       /\ \E k, l \in DOMAIN CompletionText :
             /\ k # l
             /\ CompletionText[k] = Numeral(Cardinality(Successes))
             /\ CompletionText[l] = Numeral(Cardinality(Failures))

\* The input name with only its trailing ".vsi" replaced by ".tif".
TrailingReplaced(f) == SubSeq(f, 1, Len(f) - Len(VsiSuffix)) \o TifSuffix

\* C13: every file written is named as its input with only the trailing
\* ".vsi" replaced by ".tif".
C13_TrailingSuffixReplaced ==
    /\ \A i \in DOMAIN task_log :
          task_log[i] = "saved" => TrailingReplaced(vsi_files[i]) \in written
    /\ \A name \in written :
          \E i \in DOMAIN vsi_files : name = TrailingReplaced(vsi_files[i])

\* C14: a batch that saves the same inputs as the batch before it, from the
\* same source folder into the same TIFF folder, writes the same set of
\* output names; a name already present is written again, and the folder
\* never holds a name other than the save names of the inputs.
C14_SameOutputNames ==
    /\ (batch >= 2 /\ pc = "Done" /\ SavedInputs = prev_run.saved)
       => written = prev_run.written
    /\ written \subseteq tif_folder
    /\ tif_folder \subseteq { SaveName(f) : f \in Discoverable }

\* C14 witness: the second batch has saved, over the file of the first
\* batch, the same input again.
C14_Witness ==
    /\ batch = 2
    /\ pc = "Done"
    /\ SavedInputs # {}
    /\ SavedInputs = prev_run.saved
    /\ written = prev_run.written
    /\ written = tif_folder

\* The tasks that hold image data in a local.
Holding == { i \in DOMAIN task_locals : task_locals[i] # {} }

\* C15: a task that is not running holds no image data, whichever way it
\* left convert_vsi_to_tif, so at most max_workers tasks hold data at once.
C15_BuffersReleased ==
    /\ \A i \in DOMAIN task_locals :
          task_pc[i] \notin RunningPcs => task_locals[i] = {}
    /\ Cardinality(Holding) <= max_workers

\* C15 witness: a task that failed after decoding and a task that saved
\* have both finished, while another task holds its decoded data.
C15_Witness ==
    /\ \E i \in DOMAIN task_pc :
          task_pc[i] = "finished" /\ task_log[i] = "error"
    /\ \E i \in DOMAIN task_pc :
          task_pc[i] = "finished" /\ task_log[i] = "saved"
    /\ \E i \in Holding : "image_array_np" \in task_locals[i]

\* C16: in a batch the memory option is added once, after both fields
\* passed validation and before any task is submitted, with the validated
\* value, and it stays as it is while the tasks are queued or running.
C16_MemorySetOnce ==
    /\ Len(jvm_options) <= 1
    /\ pc \in { "Idle", "AddOption" } => jvm_options = << >>
    /\ (pc = "Failed" /\ InvalidConfig) => jvm_options = << >>
    /\ (pc \in { "InitImageJ", "Discover", "Submit", "Consume", "Done" }
          \/ submitted > 0)
       => /\ jvm_options = << gigs_of_memory >>
          /\ gigs_of_memory = ReadInt(memory_entry, DefaultMemory).val
          /\ ~InvalidConfig

\* C16 witness: tasks are queued and running under the option set before.
C16_Witness ==
    /\ jvm_options = << DefaultMemory >>
    /\ InFlight # {}
    /\ work_queue # << >>

\* The forward moves of run_conversion: from Idle through validation,
\* set-up, discovery, submission and the result loop to Done, with Failed
\* from validation or discovery.
ForwardStep(from, to) ==
    \/ from = "Idle" /\ to \in { "AddOption", "Failed" }
    \/ from = "AddOption" /\ to = "InitImageJ"
    \/ from = "InitImageJ" /\ to = "Discover"
    \/ from = "Discover" /\ to \in { "Submit", "Done", "Failed" }
    \/ from = "Submit" /\ to = "Consume"
    \/ from = "Consume" /\ to = "Done"

\* The forward moves with those the code adds: Failed from imagej.init, and
\* back to Idle when the run has returned.
AmendedStep(from, to) ==
    \/ ForwardStep(from, to)
    \/ from = "InitImageJ" /\ to = "Failed"
    \/ from \in { "Done", "Failed" } /\ to = "Idle"

\* C17 as stated, in its last part: one window processes one batch; a
\* second start on it lists no directory and submits no task.
C17_OneBatchPerInstance ==
    batch > 1 => (listdir_calls = 0 /\ submitted = 0)

\* C17 as amended: within a run the coordinator moves only forward; Failed
\* is entered from validation, from imagej.init or from discovery; Done and
\* Failed end the run, and are left only by the return to Idle, from which
\* the next click starts another batch; the result of a run that has ended
\* does not change before that.
C17_StateMachine ==
    /\ [][pc' # pc => AmendedStep(pc, pc')]_vars
    /\ [][(pc \in { "Done", "Failed" } /\ pc' = pc)
            => /\ dialogs' = dialogs
               /\ escaped' = escaped
               /\ submitted' = submitted
               /\ batch' = batch]_vars
    /\ [][batch' # batch => (pc = "Idle" /\ batch' = batch + 1)]_vars

\* C17 witness: the second batch on the window is consuming results.
C17_Witness ==
    /\ batch = 2
    /\ pc = "Consume"
    /\ yielded # {}

\* C18: a submission never waits for a worker: it can be made whenever one
\* is due, also with every worker busy; a finished future can be taken
\* once the submissions are through; every state of a running batch has a
\* next step.
C18_SubmitNeverWaits ==
    /\ pc = "Submit" => ENABLED Submit
    /\ \A i \in DOMAIN future :
          (pc = "Consume" /\ future[i] # "pending" /\ i \notin yielded)
          => ENABLED Consume(i)
    /\ pc \in { "Submit", "Consume" } => ENABLED Next

\* C18 witness: every worker is busy, a result is ready and a file is
\* still to be submitted.
C18_Witness ==
    /\ pc = "Submit"
    /\ max_workers >= 1
    /\ Cardinality(InFlight) = max_workers
    /\ submitted < Len(vsi_files)
    /\ \E i \in DOMAIN future : future[i] # "pending"

\* C19: distinct inputs are saved under distinct names, so the number of
\* names written is the number of inputs saved.
C19_DistinctOutputs ==
    /\ \A i, j \in DOMAIN task_log :
          (i # j /\ task_log[i] = "saved" /\ task_log[j] = "saved")
          => SaveName(vsi_files[i]) # SaveName(vsi_files[j])
    /\ Cardinality(written) =
           Cardinality({ i \in DOMAIN task_log : task_log[i] = "saved" })

====
